---- MODULE Spec2Model ----
(***************************************************************************)
(* Model of web/react/utils/text_formatting.jsx: formatText and the passes *)
(* it runs over one message (autolinkUrls, autolinkAtMentions,             *)
(* autolinkHashtags, highlightSearchTerm, highlightCurrentMentions,        *)
(* marked, replaceTokens, replaceNewlines) with the shared token Map.      *)
(*                                                                         *)
(* Texts are TLA+ strings, i.e. sequences of characters: Len, \o and       *)
(* SubSeq are the only sequence operators applied to them.  A JavaScript   *)
(* Map is a sequence of entries in insertion order.                        *)
(***************************************************************************)
EXTENDS Integers, Sequences, FiniteSets

(***************************************************************************)
(* Bounds of the model.                                                    *)
(***************************************************************************)
\* the input text is a concatenation of at most MaxFrags fragments
MaxFrags == 2
\* the options object has at most MaxOptions properties
MaxOptions == 1
\* the message of many hashtags has MaxTags of them
MaxTags == 11
\* the strings handed to sanitizeHtml alone have at most MaxLen characters
MaxLen == 3

(***************************************************************************)
(* Characters and strings.                                                 *)
(***************************************************************************)
\* the characters a..b of s that exist, as String.prototype.substring cuts them
Slice(s, a, b) ==
    LET from == IF a < 1 THEN 1 ELSE a
        to == IF b > Len(s) THEN Len(s) ELSE b
    IN IF from > to THEN "" ELSE SubSeq(s, from, to)

Char(s, i) == Slice(s, i, i)

LowerStr == "abcdefghijklmnopqrstuvwxyz"
UpperStr == "ABCDEFGHIJKLMNOPQRSTUVWXYZ"
DigitStr == "0123456789"

CharsOf(s) == {Slice(s, i, i) : i \in 1..Len(s)}

Lower == CharsOf(LowerStr)
Upper == CharsOf(UpperStr)
Digit == CharsOf(DigitStr)

\* regular expression classes \w, \s, [a-z0-9] with flag i, [a-zA-Z0-9.\-_]
WordChars == Lower \cup Upper \cup Digit \cup {"_"}
SpaceChars == {" ", "\n", "\t"}
AlnumChars == Lower \cup Upper \cup Digit
NameChars == Lower \cup Upper \cup Digit \cup {".", "-", "_"}

IsWord(c) == c \in WordChars
IsSpace(c) == c \in SpaceChars
IsAlnum(c) == c \in AlnumChars

Min(S) == CHOOSE x \in S : \A y \in S : x <= y
Max(S) == CHOOSE x \in S : \A y \in S : x >= y

\* String.prototype.toLowerCase, one character
LowerChar(c) ==
    IF c \in Upper
    THEN LET i == CHOOSE k \in 1..26 : Slice(UpperStr, k, k) = c
         IN Slice(LowerStr, i, i)
    ELSE c

\* String.prototype.toLowerCase: every character, the two halves in turn
RECURSIVE ToLowerCase(_)
ToLowerCase(s) ==
    IF Len(s) <= 1 THEN LowerChar(s)
    ELSE ToLowerCase(Slice(s, 1, Len(s) \div 2))
         \o ToLowerCase(Slice(s, Len(s) \div 2 + 1, Len(s)))

\* the decimal digits of a number, as a template literal prints it
RECURSIVE NumToStr(_)
NumToStr(n) ==
    IF n < 10 THEN Slice(DigitStr, n + 1, n + 1)
    ELSE NumToStr(n \div 10) \o Slice(DigitStr, (n % 10) + 1, (n % 10) + 1)

\* String.prototype.indexOf(pat, from): 1-based position, 0 when absent
IndexOf(s, pat, from) ==
    LET hits == {i \in from..(Len(s) - Len(pat) + 1) :
                     Slice(s, i, i + Len(pat) - 1) = pat}
    IN IF hits = {} THEN 0 ELSE Min(hits)

Contains(s, pat) == IndexOf(s, pat, 1) # 0

\* number of positions at which pat occurs in s
Occurrences(s, pat) ==
    Cardinality({i \in 1..(Len(s) - Len(pat) + 1) :
                     Slice(s, i, i + Len(pat) - 1) = pat})

\* url.lastIndexOf(prefix, 0) === 0
StartsWith(s, prefix) ==
    Len(s) >= Len(prefix) /\ Slice(s, 1, Len(prefix)) = prefix

\* the assertion \b between positions k-1 and k
WordBoundary(s, k) == IsWord(Char(s, k - 1)) # IsWord(Char(s, k))

\* length of the longest run of characters of a class starting at position p
RunLen(s, p, class) ==
    LET stops == {k \in p..Len(s) : Char(s, k) \notin class}
    IN IF stops = {} THEN Len(s) + 1 - p ELSE Min(stops) - p

(***************************************************************************)
(* String.prototype.replace(pattern, replacement) with a string pattern    *)
(* and a string replacement: the first occurrence only, and the            *)
(* replacement is a template in which a dollar sign followed by a dollar   *)
(* sign (a dollar sign), an ampersand (the matched text) or an apostrophe  *)
(* (the text after the match) is special.  The fourth form, the text       *)
(* before the match, is written with a backtick, a character that no       *)
(* string of this module contains.                                         *)
(***************************************************************************)
RECURSIVE GetSubstitution(_, _, _)
GetSubstitution(repl, matched, after) ==
    LET d == IndexOf(repl, "$", 1)
    IN IF d = 0 THEN repl
       ELSE IF Char(repl, d + 1) \in {"$", "&", "'"}
            THEN Slice(repl, 1, d - 1)
                 \o (CASE Char(repl, d + 1) = "$" -> "$"
                        [] Char(repl, d + 1) = "&" -> matched
                        [] OTHER -> after)
                 \o GetSubstitution(Slice(repl, d + 2, Len(repl)), matched, after)
            ELSE Slice(repl, 1, d)
                 \o GetSubstitution(Slice(repl, d + 1, Len(repl)), matched, after)

StringReplace(s, pat, repl) ==
    LET i == IndexOf(s, pat, 1)
    IN IF i = 0 THEN s
       ELSE LET before == Slice(s, 1, i - 1)
                after == Slice(s, i + Len(pat), Len(s))
            IN before \o GetSubstitution(repl, pat, after) \o after

(***************************************************************************)
(* The token Map: entries in insertion order, each with its key (alias)    *)
(* and its token {value, originalText}.                                    *)
(***************************************************************************)
MapHas(m, alias) == \E k \in 1..Len(m) : m[k].alias = alias

\* Map.prototype.set: a new key is appended, an existing key keeps its place
MapSet(m, alias, token) ==
    LET entry == [alias |-> alias, value |-> token.value,
                  originalText |-> token.originalText]
    IN IF MapHas(m, alias)
       THEN [k \in 1..Len(m) |-> IF m[k].alias = alias THEN entry ELSE m[k]]
       ELSE Append(m, entry)

MapKeys(m) == {m[k].alias : k \in 1..Len(m)}

\* the template literal MM_<CATEGORY>${index}
MakeAlias(prefix, index) == prefix \o NumToStr(index)

(***************************************************************************)
(* replaceTokens: the aliases in reverse insertion order, each replaced    *)
(* once by String.prototype.replace with the token's value as replacement. *)
(***************************************************************************)
RECURSIVE ReplaceTokensFrom(_, _, _)
ReplaceTokensFrom(text, m, i) ==
    IF i < 1 THEN text
    ELSE ReplaceTokensFrom(StringReplace(text, m[i].alias, m[i].value), m, i - 1)

replaceTokens(text, m) == ReplaceTokensFrom(text, m, Len(m))

\* text.replace(/c/g, by) for one character c: every occurrence, the two
\* halves of the text in turn
RECURSIVE ReplaceAllChar(_, _, _)
ReplaceAllChar(s, c, by) ==
    IF Len(s) <= 1 THEN (IF s = c THEN by ELSE s)
    ELSE ReplaceAllChar(Slice(s, 1, Len(s) \div 2), c, by)
         \o ReplaceAllChar(Slice(s, Len(s) \div 2 + 1, Len(s)), c, by)

\* a replace without the flag g
replaceNewlinesOnce(s) == StringReplace(s, "\n", " ")

\* replaceNewlines: text.replace(/\n/g, ' ')
replaceNewlines(s) == ReplaceAllChar(s, "\n", " ")

(***************************************************************************)
(* sanitizeHtml: five global replacements, one after the other.            *)
(***************************************************************************)
\* the replacement of the ampersand done last instead of first
sanitizeHtmlAmpersandLast(text) ==
    LET o1 == ReplaceAllChar(text, "<", "&lt;")
        o2 == ReplaceAllChar(o1, ">", "&gt;")
        o3 == ReplaceAllChar(o2, "'", "&apos;")
        o4 == ReplaceAllChar(o3, "\"", "&quot;")
    IN ReplaceAllChar(o4, "&", "&amp;")

\* a sixth replacement, of the slash
sanitizeHtmlWithSlash(text) ==
    LET o1 == ReplaceAllChar(text, "&", "&amp;")
        o2 == ReplaceAllChar(o1, "<", "&lt;")
        o3 == ReplaceAllChar(o2, ">", "&gt;")
        o4 == ReplaceAllChar(o3, "'", "&apos;")
        o5 == ReplaceAllChar(o4, "\"", "&quot;")
    IN ReplaceAllChar(o5, "/", "&#x2F;")

sanitizeHtml(text) ==
    LET o1 == ReplaceAllChar(text, "&", "&amp;")
        o2 == ReplaceAllChar(o1, "<", "&lt;")
        o3 == ReplaceAllChar(o2, ">", "&gt;")
        o4 == ReplaceAllChar(o3, "'", "&apos;")
    IN ReplaceAllChar(o4, "\"", "&quot;")

(***************************************************************************)
(* autolinkUrls.                                                           *)
(***************************************************************************)
\* href of a link: http:// is put in front unless the text starts with http
LinkUrl(linkText) ==
    IF ~StartsWith(linkText, "http") THEN "http://" \o linkText ELSE linkText

LinkToken(linkText) ==
    [value |-> "<a class='theme' target='_blank' href='" \o LinkUrl(linkText)
                   \o "'>" \o linkText \o "</a>",
     originalText |-> linkText]

\* replaceUrlWithToken: the alias it returns and the store it leaves
LinkAlias(tokens) == MakeAlias("MM_LINK", Len(tokens))
replaceUrlWithToken(tokens, linkText) ==
    MapSet(tokens, LinkAlias(tokens), LinkToken(linkText))

\* a pass that finds no markdown link to shield
MarkdownLinkLenNone(s, i) == 0

\* /\]\([^\)]*\)/ at position i: the length of the match, 0 when none
MarkdownLinkLen(s, i) ==
    IF Char(s, i) = "]" /\ Char(s, i + 1) = "("
    THEN LET close == IndexOf(s, ")", i + 2)
         IN IF close = 0 THEN 0 ELSE close - i + 1
    ELSE 0

MarkdownLinkAlias(m) == MakeAlias("MM_MARKDOWNLINK", Len(m))

\* output.replace(/\]\([^\)]*\)/g, replaceMarkdownLinkWithToken)
RECURSIVE ReplaceMarkdownLinks(_, _, _, _)
ReplaceMarkdownLinks(s, from, acc, m) ==
    LET starts == {j \in from..Len(s) : MarkdownLinkLen(s, j) > 0}
    IN IF starts = {} THEN [output |-> acc \o Slice(s, from, Len(s)), map |-> m]
       ELSE LET i == Min(starts)
                n == MarkdownLinkLen(s, i)
            IN ReplaceMarkdownLinks(s, i + n,
                   acc \o Slice(s, from, i - 1) \o MarkdownLinkAlias(m),
                   MapSet(m, MarkdownLinkAlias(m),
                          [value |-> Slice(s, i, i + n - 1), originalText |-> ""]))

(***************************************************************************)
(* The link detector (Autolinker with urls and email on, phone, twitter    *)
(* and hashtag off), as far as the texts of this model need it: a match is *)
(* an e-mail address, a URL with the scheme http:// or https://, or a bare *)
(* domain ending in one of the top-level domains of Tlds, the last two     *)
(* with an optional path that starts with one of / ? #.                    *)
(***************************************************************************)
Tlds == {"com", "org"}
Schemes == {"http://", "https://"}

DomainChars == AlnumChars \cup {".", "-"}
LocalChars == WordChars \cup {"-", ";", ":", "&", "=", "+", "$", ",", "."}
PathEndChars ==
    AlnumChars \cup {"-", "+", "&", "@", "#", "/", "%", "=", "~", "_", "(", ")",
                     "|", "'", "$", "*", "[", "]"}
PathChars == PathEndChars \cup {"?", "!", ":", ",", ".", ";"}

\* [A-Za-z0-9.-]*[A-Za-z0-9-] \.(tld) \b from position p: its length or 0
DomainLen(s, p) ==
    LET run == RunLen(s, p, DomainChars)
        ends == {n \in 1..run :
                    /\ \E t \in Tlds :
                          /\ n > Len(t) + 1
                          /\ Slice(s, p + n - Len(t) - 1, p + n - 1) = "." \o t
                          /\ Char(s, p + n - Len(t) - 2) # "."
                    /\ WordBoundary(s, p + n)}
    IN IF ends = {} THEN 0 ELSE Max(ends)

\* a host after a scheme: [A-Za-z0-9.-]*[A-Za-z0-9-]
HostLen(s, p) ==
    LET run == RunLen(s, p, DomainChars)
        ends == {n \in 1..run : Char(s, p + n - 1) # "."}
    IN IF ends = {} THEN 0 ELSE Max(ends)

\* the optional path from position p: its length or 0
PathLen(s, p) ==
    IF Char(s, p) \in {"/", "?", "#"}
    THEN LET run == RunLen(s, p + 1, PathChars)
             ends == {n \in 1..run : Char(s, p + n) \in PathEndChars}
         IN IF ends = {} THEN 1 ELSE 1 + Max(ends)
    ELSE 0

\* [\-;:&=+$,\w.]+@ and a domain: the at sign is in no class, so it ends the run
EmailLen(s, i) ==
    LET local == RunLen(s, i, LocalChars)
    IN IF local > 0 /\ Char(s, i + local) = "@" /\ DomainLen(s, i + local + 1) > 0
       THEN local + 1 + DomainLen(s, i + local + 1)
       ELSE 0

UrlLen(s, i) ==
    LET scheme == {c \in Schemes : Slice(s, i, i + Len(c) - 1) = c}
    IN IF scheme # {}
       THEN LET n == Len(CHOOSE c \in scheme : TRUE)
                h == HostLen(s, i + n)
            IN IF h = 0 THEN 0 ELSE n + h + PathLen(s, i + n + h)
       ELSE LET d == DomainLen(s, i)
            IN IF d = 0 THEN 0 ELSE d + PathLen(s, i + d)

LinkMatchLen(s, i) ==
    LET e == EmailLen(s, i)
    IN IF e > 0 THEN e ELSE UrlLen(s, i)

\* autolinker.link(output) with replaceFn: replaceUrlWithToken
RECURSIVE AutolinkerLink(_, _, _, _)
AutolinkerLink(s, from, acc, tokens) ==
    LET starts == {j \in from..Len(s) : LinkMatchLen(s, j) > 0}
    IN IF starts = {} THEN [output |-> acc \o Slice(s, from, Len(s)), tokens |-> tokens]
       ELSE LET i == Min(starts)
                n == LinkMatchLen(s, i)
            IN AutolinkerLink(s, i + n, acc \o Slice(s, from, i - 1) \o LinkAlias(tokens),
                   replaceUrlWithToken(tokens, Slice(s, i, i + n - 1)))

(***************************************************************************)
(* autolinkAtMentions.                                                     *)
(***************************************************************************)
\* Constants.SPECIAL_MENTIONS
SPECIAL_MENTIONS == {"all", "channel"}

\* (@([a-z0-9.\-_]*[a-z0-9])) with flag i from position p: its length or 0
AtMentionLen(s, p) ==
    IF Char(s, p) = "@"
    THEN LET run == RunLen(s, p + 1, NameChars)
             ends == {n \in 1..run : IsAlnum(Char(s, p + n))}
         IN IF ends = {} THEN 0 ELSE 1 + Max(ends)
    ELSE 0

\* (^|\s) in front of a mention at position i: 0 for ^, 1 for \s, -1 for no match
AtMentionPrefix(s, i) ==
    IF i = 1 /\ AtMentionLen(s, 1) > 0 THEN 0
    ELSE IF IsSpace(Char(s, i)) /\ AtMentionLen(s, i + 1) > 0 THEN 1
    ELSE -1

\* a callback that looks nothing up
MentionAcceptedAlways(username, users) == TRUE

\* the condition of replaceAtMentionWithToken
MentionAccepted(username, users) ==
    ToLowerCase(username) \in SPECIAL_MENTIONS \/ ToLowerCase(username) \in users

AtMentionToken(mention, username) ==
    [value |-> "<a class='mention-link' href='#' data-mention='"
                   \o ToLowerCase(username) \o "'>" \o mention \o "</a>",
     originalText |-> mention]

AtMentionAlias(tokens) == MakeAlias("MM_ATMENTION", Len(tokens))

\* output.replace(/(^|\s)(@([a-z0-9.\-_]*[a-z0-9]))/gi, replaceAtMentionWithToken)
RECURSIVE ReplaceAtMentions(_, _, _, _, _)
ReplaceAtMentions(s, from, acc, tokens, users) ==
    LET starts == {j \in from..Len(s) : AtMentionPrefix(s, j) >= 0}
    IN IF starts = {} THEN [output |-> acc \o Slice(s, from, Len(s)), tokens |-> tokens]
       ELSE LET i == Min(starts)
                pre == AtMentionPrefix(s, i)
                n == AtMentionLen(s, i + pre)
                prefix == Slice(s, i, i + pre - 1)
                mention == Slice(s, i + pre, i + pre + n - 1)
                username == Slice(s, i + pre + 1, i + pre + n - 1)
                skipped == acc \o Slice(s, from, i - 1)
            IN IF MentionAccepted(username, users)
               THEN ReplaceAtMentions(s, i + pre + n,
                        skipped \o prefix \o AtMentionAlias(tokens),
                        MapSet(tokens, AtMentionAlias(tokens),
                               AtMentionToken(mention, username)),
                        users)
               ELSE ReplaceAtMentions(s, i + pre + n,
                        skipped \o prefix \o mention, tokens, users)

autolinkAtMentions(text, tokens, users) == ReplaceAtMentions(text, 1, "", tokens, users)

(***************************************************************************)
(* autolinkHashtags.                                                       *)
(***************************************************************************)
HashtagToken(hashtag) ==
    [value |-> "<a class='mention-link' href='#' data-hashtag='" \o hashtag
                   \o "'>" \o hashtag \o "</a>",
     originalText |-> hashtag]

\* (#[a-zA-Z0-9.\-_]+)\b from position p: its length or 0
HashtagLen(s, p) ==
    IF Char(s, p) = "#"
    THEN LET run == RunLen(s, p + 1, NameChars)
             ends == {n \in 1..run : WordBoundary(s, p + n + 1)}
         IN IF ends = {} THEN 0 ELSE 1 + Max(ends)
    ELSE 0

\* (^|\W) in front of a pattern at position i, given the length the pattern
\* matches at i and at i + 1: 0 for ^, 1 for \W, -1 for no match
WordPrefix(s, i, lenHere, lenNext) ==
    IF i = 1 /\ lenHere > 0 THEN 0
    ELSE IF i <= Len(s) /\ ~IsWord(Char(s, i)) /\ lenNext > 0 THEN 1
    ELSE -1

\* a callback that returns the anchor itself
HashtagAliasAsAnchor(tokens) ==
    "<a class='mention-link'>" \o MakeAlias("MM_HASHTAG", Len(tokens)) \o "</a>"

HashtagAlias(tokens) == MakeAlias("MM_HASHTAG", Len(tokens))

\* output.replace(/(^|\W)(#[a-zA-Z0-9.\-_]+)\b/g, replaceHashtagWithToken)
RECURSIVE ReplaceHashtags(_, _, _, _)
ReplaceHashtags(s, from, acc, tokens) ==
    LET starts == {j \in from..Len(s) : WordPrefix(s, j, HashtagLen(s, j), HashtagLen(s, j + 1)) >= 0}
    IN IF starts = {} THEN [output |-> acc \o Slice(s, from, Len(s)), tokens |-> tokens]
       ELSE LET i == Min(starts)
                pre == WordPrefix(s, i, HashtagLen(s, i), HashtagLen(s, i + 1))
                n == HashtagLen(s, i + pre)
                hashtag == Slice(s, i + pre, i + pre + n - 1)
            IN ReplaceHashtags(s, i + pre + n,
                   acc \o Slice(s, from, i + pre - 1) \o HashtagAlias(tokens),
                   MapSet(tokens, HashtagAlias(tokens), HashtagToken(hashtag)))

\* the condition of the first loop: token.originalText.lastIndexOf('#', 0) === 0
HashtagRewrapTest(token) == StartsWith(token.originalText, "#")

\* the token the first loop stashes for an existing token
HashtagRewrapToken(alias, token) == HashtagToken(token.originalText)

(***************************************************************************)
(* highlightSearchTerm and highlightCurrentMentions.                       *)
(***************************************************************************)
\* one character of a regular expression source against one character of
\* the text, with flag i: a dot is any character but a newline, every other
\* character of the sources used here stands for itself
SourceCharMatches(pc, c) ==
    IF pc = "." THEN c # "" /\ c # "\n" ELSE LowerChar(pc) = LowerChar(c)

\* new RegExp of a pattern with this source throws a SyntaxError: among the
\* characters of the sources used here only the parentheses can make it so,
\* when a ) closes no group or a ( is left open
RegExpThrows(source) ==
    LET opened(k) == Occurrences(Slice(source, 1, k), "(")
        closed(k) == Occurrences(Slice(source, 1, k), ")")
    IN \/ \E k \in 1..Len(source) : closed(k) > opened(k)
       \/ opened(Len(source)) # closed(Len(source))

\* (source)\b from position p: its length or 0
SourceLen(s, p, source) ==
    IF /\ Len(source) > 0
       /\ \A k \in 1..Len(source) : SourceCharMatches(Char(source, k), Char(s, p + k - 1))
       /\ WordBoundary(s, p + Len(source))
    THEN Len(source)
    ELSE 0

SearchTermToken(inner) ==
    [value |-> "<span class='search-highlight'>" \o inner \o "</span>",
     originalText |-> inner]

SelfMentionToken(inner) ==
    [value |-> "<span class='mention-highlight'>" \o inner \o "</span>",
     originalText |-> inner]

\* output.replace(new RegExp(`(^|\W)(${source})\b`, 'gi'), replace...WithToken)
\* with the callback of the pass that owns the alias prefix
WordToken(prefix, word) ==
    IF prefix = "MM_SEARCHTERM" THEN SearchTermToken(word) ELSE SelfMentionToken(word)

RECURSIVE ReplaceWords(_, _, _, _, _, _)
ReplaceWords(s, from, acc, tokens, source, prefix) ==
    LET WordLen(t, q) == SourceLen(t, q, source)
        starts == {j \in from..Len(s) : WordPrefix(s, j, WordLen(s, j), WordLen(s, j + 1)) >= 0}
    IN IF starts = {} THEN [output |-> acc \o Slice(s, from, Len(s)), tokens |-> tokens]
       ELSE LET i == Min(starts)
                pre == WordPrefix(s, i, WordLen(s, i), WordLen(s, i + 1))
                n == SourceLen(s, i + pre, source)
                word == Slice(s, i + pre, i + pre + n - 1)
                alias == MakeAlias(prefix, Len(tokens))
            IN ReplaceWords(s, i + pre + n,
                   acc \o Slice(s, from, i + pre - 1) \o alias,
                   MapSet(tokens, alias, WordToken(prefix, word)), source, prefix)

\* the second phase of highlightSearchTerm
ReplaceSearchTerm(text, tokens, searchTerm) ==
    ReplaceWords(text, 1, "", tokens, searchTerm, "MM_SEARCHTERM")

\* the second phase of highlightCurrentMentions: one global replace per key
RECURSIVE ReplaceCurrentMentions(_, _, _, _)
ReplaceCurrentMentions(text, tokens, keys, k) ==
    IF k > Len(keys) THEN [output |-> text, tokens |-> tokens]
    ELSE LET r == ReplaceWords(text, 1, "", tokens, keys[k], "MM_SELFMENTION")
         IN ReplaceCurrentMentions(r.output, r.tokens, keys, k + 1)

\* the conditions of the first loops
SearchRewrapTest(token, searchTerm) == token.originalText = searchTerm
SelfMentionRewrapTest(token, keys) ==
    \E k \in 1..Len(keys) : keys[k] = token.originalText

\* the tokens the first loops stash for an existing token
SearchRewrapToken(alias, token) ==
    [value |-> "<span class='search-highlight'>" \o alias \o "</span>",
     originalText |-> token.originalText]
SelfMentionRewrapToken(alias, token) ==
    [value |-> "<span class='mention-highlight'>" \o alias \o "</span>",
     originalText |-> token.originalText]

\* a first loop that numbers its tokens by the size of the shared Map alone
RewrapIndexOfStoreOnly(tokens, newTokens) == Len(tokens)

\* the index of a token stashed by a first loop
RewrapIndex(tokens, newTokens) == Len(tokens) + Len(newTokens)

\* the second loop: for (const newToken of newTokens) tokens.set(...)
RECURSIVE MergeFrom(_, _, _)
MergeFrom(tokens, newTokens, k) ==
    IF k > Len(newTokens) THEN tokens
    ELSE MergeFrom(MapSet(tokens, newTokens[k].alias, newTokens[k]), newTokens, k + 1)

\* a pass whose second loop is left out
MergeNewTokensSkipped(tokens, newTokens) == tokens

MergeNewTokens(tokens, newTokens) == MergeFrom(tokens, newTokens, 1)

(***************************************************************************)
(* marked(output, {renderer, sanitize: true}), the external renderer, on   *)
(* one paragraph of text without markdown syntax: the characters that are  *)
(* special in HTML are escaped and the paragraph is wrapped.               *)
(***************************************************************************)
MarkedEscape(text) ==
    LET o1 == ReplaceAllChar(text, "&", "&amp;")
        o2 == ReplaceAllChar(o1, "<", "&lt;")
        o3 == ReplaceAllChar(o2, ">", "&gt;")
        o4 == ReplaceAllChar(o3, "\"", "&quot;")
    IN ReplaceAllChar(o4, "'", "&#39;")

marked(text) == IF text = "" THEN "" ELSE "<p>" \o MarkedEscape(text) \o "</p>\n"

(***************************************************************************)
(* One call formatText(text, options), step by step.                       *)
(*                                                                         *)
(* An options object is a record of its four fields, each <<>> when the    *)
(* object has no such property and <<v>> when it has it with value v.      *)
(***************************************************************************)
VARIABLES
    text,               \* the argument text
    options,            \* the caller's options object
    users,              \* the usernames UserStore.getProfileByUsername finds
    mentionKeys,        \* the result of UserStore.getCurrentMentionKeys()
    output,             \* the working text
    tokens,             \* the shared Map of tokens
    newTokens,          \* the Map a first loop stashes its tokens in
    markdownLinkTokens, \* the private Map of autolinkUrls
    idx,                \* the position of a first loop in tokens
    wraps,              \* history: <<newAlias, alias>> for every alias a first loop wrapped
    pc                  \* the statement formatText has reached

vars == <<text, options, users, mentionKeys, output, tokens, newTokens,
          markdownLinkTokens, idx, wraps, pc>>

Fragments ==
    {"see ", "#general", "@bob", "@Bob", "@all", "httpbin.org",
     "[text](http://example.com)", "MM_HASHTAG0 ", "example.com/$&", "\n"}

RECURSIVE TextsOf(_)
TextsOf(n) ==
    IF n = 0 THEN {""}
    ELSE TextsOf(n - 1) \cup {t \o f : t \in TextsOf(n - 1), f \in Fragments}

Texts == TextsOf(MaxFrags)

SearchTerms == {"#general", "bob"}

OptionObjects ==
    {o \in [markdown : {<<>>, <<FALSE>>},
            searchTerm : {<<>>} \cup {<<t>> : t \in SearchTerms},
            mentionHighlight : {<<>>, <<FALSE>>},
            singleline : {<<>>, <<TRUE>>}] :
        Cardinality({f \in {"markdown", "searchTerm", "mentionHighlight", "singleline"} :
                         o[f] # <<>>}) <= MaxOptions}

\* the user directory and the viewer's mention keys
Viewers ==
    {[users |-> {}, keys |-> <<"#general">>],
     [users |-> {"bob"}, keys |-> <<"@bob", "bob">>]}

\* 'field' in options, and the truth value of options.field
HasOption(o, f) == o[f] # <<>>
OptionTrue(o, f) == o[f] # <<>> /\ o[f][1] = TRUE

Init ==
    /\ text \in Texts
    /\ options \in OptionObjects
    /\ \E v \in Viewers : users = v.users /\ mentionKeys = v.keys
    /\ output = ""
    /\ tokens = <<>>
    /\ newTokens = <<>>
    /\ markdownLinkTokens = <<>>
    /\ idx = 0
    /\ wraps = {}
    /\ pc = "start"

\* formatText up to the creation of the token Map
FormatTextStart ==
    /\ pc = "start"
    /\ options' = IF HasOption(options, "markdown") THEN options
                  ELSE [options EXCEPT !.markdown = <<TRUE>>]
    /\ output' = IF ~OptionTrue(options', "markdown") THEN sanitizeHtml(text) ELSE text
    /\ tokens' = <<>>
    /\ pc' = "shield"
    /\ UNCHANGED <<text, users, mentionKeys, newTokens, markdownLinkTokens, idx, wraps>>

\* autolinkUrls: the markdown links are replaced by private placeholders
ShieldMarkdownLinks ==
    /\ pc = "shield"
    /\ LET r == IF OptionTrue(options, "markdown")
                THEN ReplaceMarkdownLinks(output, 1, "", <<>>)
                ELSE [output |-> output, map |-> <<>>]
       IN /\ output' = r.output
          /\ markdownLinkTokens' = r.map
    /\ pc' = "link"
    /\ UNCHANGED <<text, options, users, mentionKeys, tokens, newTokens, idx, wraps>>

\* autolinkUrls: autolinker.link(output)
RunAutolinker ==
    /\ pc = "link"
    /\ LET r == AutolinkerLink(output, 1, "", tokens)
       IN /\ output' = r.output
          /\ tokens' = r.tokens
    /\ pc' = "unshield"
    /\ UNCHANGED <<text, options, users, mentionKeys, newTokens, markdownLinkTokens,
                   idx, wraps>>

\* autolinkUrls: replaceTokens(output, markdownLinkTokens) and return
RestoreMarkdownLinks ==
    /\ pc = "unshield"
    /\ output' = IF OptionTrue(options, "markdown")
                 THEN replaceTokens(output, markdownLinkTokens)
                 ELSE output
    /\ pc' = "mentions"
    /\ UNCHANGED <<text, options, users, mentionKeys, tokens, newTokens,
                   markdownLinkTokens, idx, wraps>>

AutolinkAtMentions ==
    /\ pc = "mentions"
    /\ LET r == autolinkAtMentions(output, tokens, users)
       IN /\ output' = r.output
          /\ tokens' = r.tokens
    /\ pc' = "hashtag_a"
    /\ newTokens' = <<>>
    /\ idx' = 1
    /\ UNCHANGED <<text, options, users, mentionKeys, markdownLinkTokens, wraps>>

\* options.searchTerm, "" when the object has none
SearchTermOf(o) == IF HasOption(o, "searchTerm") THEN o.searchTerm[1] ELSE ""

\* !('mentionHighlight' in options) || options.mentionHighlight
MentionHighlightOn(o) ==
    ~HasOption(o, "mentionHighlight") \/ OptionTrue(o, "mentionHighlight")

\* where formatText goes after autolinkHashtags and after highlightSearchTerm
AfterSearchTerm(o) == IF MentionHighlightOn(o) THEN "self_a" ELSE "markdown"
\* a formatText that calls highlightSearchTerm whatever the options
AfterHashtagsAlways(o) == "search_a"

AfterHashtags(o) == IF SearchTermOf(o) # "" THEN "search_a" ELSE AfterSearchTerm(o)

\* one iteration of the first loop of a pass over tokens[idx]
RewrapStep(at, matches, prefix, token, wrapping) ==
    /\ pc = at
    /\ idx <= Len(tokens)
    /\ LET alias == tokens[idx].alias
           newAlias == MakeAlias(prefix, RewrapIndex(tokens, newTokens))
       IN IF matches
          THEN /\ newTokens' = MapSet(newTokens, newAlias, token)
               /\ output' = StringReplace(output, alias, newAlias)
               /\ wraps' = IF wrapping THEN wraps \cup {<<newAlias, alias>>} ELSE wraps
          ELSE UNCHANGED <<newTokens, output, wraps>>
    /\ idx' = idx + 1
    /\ UNCHANGED <<text, options, users, mentionKeys, tokens, markdownLinkTokens, pc>>

\* the second loop of a pass, after the last iteration of the first
MergeStep(at, to) ==
    /\ pc = at
    /\ idx > Len(tokens)
    /\ tokens' = MergeNewTokens(tokens, newTokens)
    /\ pc' = to
    /\ UNCHANGED <<text, options, users, mentionKeys, output, newTokens,
                   markdownLinkTokens, idx, wraps>>

\* the global replace that ends a pass; formatText then enters the pass at `to`
ScanStep(at, r, to) ==
    /\ pc = at
    /\ output' = r.output
    /\ tokens' = r.tokens
    /\ pc' = to
    /\ newTokens' = <<>>
    /\ idx' = 1
    /\ UNCHANGED <<text, options, users, mentionKeys, markdownLinkTokens, wraps>>

\* new RegExp throws: formatText ends with the exception
RaiseStep(at) ==
    /\ pc = at
    /\ pc' = "raised"
    /\ UNCHANGED <<text, options, users, mentionKeys, output, tokens, newTokens,
                   markdownLinkTokens, idx, wraps>>

HashtagRewrap ==
    RewrapStep("hashtag_a", idx <= Len(tokens) /\ HashtagRewrapTest(tokens[idx]),
               "MM_HASHTAG", HashtagRewrapToken(tokens[idx].alias, tokens[idx]), FALSE)
HashtagMerge == MergeStep("hashtag_a", "hashtag_b")
HashtagScan ==
    ScanStep("hashtag_b", ReplaceHashtags(output, 1, "", tokens), AfterHashtags(options))

SearchTermRewrap ==
    RewrapStep("search_a",
               idx <= Len(tokens) /\ SearchRewrapTest(tokens[idx], SearchTermOf(options)),
               "MM_SEARCHTERM", SearchRewrapToken(tokens[idx].alias, tokens[idx]), TRUE)
SearchTermMerge == MergeStep("search_a", "search_b")
SearchTermScan ==
    IF RegExpThrows(SearchTermOf(options))
    THEN RaiseStep("search_b")
    ELSE ScanStep("search_b", ReplaceSearchTerm(output, tokens, SearchTermOf(options)),
                  AfterSearchTerm(options))

SelfMentionRewrap ==
    RewrapStep("self_a",
               idx <= Len(tokens) /\ SelfMentionRewrapTest(tokens[idx], mentionKeys),
               "MM_SELFMENTION", SelfMentionRewrapToken(tokens[idx].alias, tokens[idx]), TRUE)
SelfMentionMerge == MergeStep("self_a", "self_b")
SelfMentionScan ==
    IF \E k \in 1..Len(mentionKeys) : RegExpThrows(mentionKeys[k])
    THEN RaiseStep("self_b")
    ELSE ScanStep("self_b", ReplaceCurrentMentions(output, tokens, mentionKeys, 1),
                  "markdown")

\* formatText: the markdown renderer
RenderMarkdown ==
    /\ pc = "markdown"
    /\ output' = IF OptionTrue(options, "markdown") THEN marked(output) ELSE output
    /\ pc' = "resolve"
    /\ UNCHANGED <<text, options, users, mentionKeys, tokens, newTokens,
                   markdownLinkTokens, idx, wraps>>

\* formatText: output = replaceTokens(output, tokens)
ResolveTokens ==
    /\ pc = "resolve"
    /\ output' = replaceTokens(output, tokens)
    /\ pc' = "newlines"
    /\ UNCHANGED <<text, options, users, mentionKeys, tokens, newTokens,
                   markdownLinkTokens, idx, wraps>>

\* formatText: the newlines, and return
ReturnOutput ==
    /\ pc = "newlines"
    /\ output' = IF OptionTrue(options, "singleline") THEN replaceNewlines(output)
                 ELSE output
    /\ pc' = "done"
    /\ UNCHANGED <<text, options, users, mentionKeys, tokens, newTokens,
                   markdownLinkTokens, idx, wraps>>

Next ==
    \/ FormatTextStart
    \/ ShieldMarkdownLinks
    \/ RunAutolinker
    \/ RestoreMarkdownLinks
    \/ AutolinkAtMentions
    \/ HashtagRewrap
    \/ HashtagMerge
    \/ HashtagScan
    \/ SearchTermRewrap
    \/ SearchTermMerge
    \/ SearchTermScan
    \/ SelfMentionRewrap
    \/ SelfMentionMerge
    \/ SelfMentionScan
    \/ RenderMarkdown
    \/ ResolveTokens
    \/ ReturnOutput

Spec == Init /\ [][Next]_vars

(***************************************************************************)
(* The same calls on the inputs of the special cases: search terms and     *)
(* mention keys with regular expression metacharacters, a search term that *)
(* is a mention key, words in another letter case, and a message with so   *)
(* many hashtags that token indexes reach two digits.                      *)
(***************************************************************************)
RECURSIVE Repeated(_, _)
Repeated(s, n) == IF n = 0 THEN "" ELSE Repeated(s, n - 1) \o s

\* MaxTags hashtags, the second of them #general
ManyHashtags == "#a #general" \o Repeated(" #a", MaxTags - 2)

CaseTexts == {"@all see bob", "Bob bob", ManyHashtags}

CaseSearchTerms == {"(", ".", "bob", "#general"}

CaseOptionObjects ==
    {[markdown |-> <<>>, searchTerm |-> t, mentionHighlight |-> <<>>, singleline |-> <<>>] :
        t \in {<<>>} \cup {<<term>> : term \in CaseSearchTerms}}

CaseViewers ==
    {[users |-> {}, keys |-> <<"bob">>],
     [users |-> {}, keys |-> <<"#general">>],
     [users |-> {}, keys |-> <<"bob", "(">>]}

InitCases ==
    /\ text \in CaseTexts
    /\ options \in CaseOptionObjects
    /\ \E v \in CaseViewers : users = v.users /\ mentionKeys = v.keys
    /\ output = ""
    /\ tokens = <<>>
    /\ newTokens = <<>>
    /\ markdownLinkTokens = <<>>
    /\ idx = 0
    /\ wraps = {}
    /\ pc = "start"

SpecCases == InitCases /\ [][Next]_vars

(***************************************************************************)
(* sanitizeHtml called on its own, once and then on its own result, with   *)
(* strings over the five characters it escapes and three it does not.      *)
(***************************************************************************)
SanitizeChars == {"&", "<", ">", "'", "\"", "a", "/", ";"}

RECURSIVE StringsOf(_)
StringsOf(n) ==
    IF n = 0 THEN {""}
    ELSE StringsOf(n - 1) \cup {t \o c : t \in StringsOf(n - 1), c \in SanitizeChars}

InitSanitize ==
    /\ text \in StringsOf(MaxLen)
    /\ options = [markdown |-> <<>>, searchTerm |-> <<>>, mentionHighlight |-> <<>>,
                  singleline |-> <<>>]
    /\ users = {}
    /\ mentionKeys = <<>>
    /\ output = ""
    /\ tokens = <<>>
    /\ newTokens = <<>>
    /\ markdownLinkTokens = <<>>
    /\ idx = 0
    /\ wraps = {}
    /\ pc = "sanitize"

SanitizeCall ==
    /\ pc = "sanitize"
    /\ output' = sanitizeHtml(text)
    /\ pc' = "sanitized"
    /\ UNCHANGED <<text, options, users, mentionKeys, tokens, newTokens,
                   markdownLinkTokens, idx, wraps>>

SanitizeAgain ==
    /\ pc = "sanitized"
    /\ output' = sanitizeHtml(output)
    /\ pc' = "sanitized_twice"
    /\ UNCHANGED <<text, options, users, mentionKeys, tokens, newTokens,
                   markdownLinkTokens, idx, wraps>>

NextSanitize == SanitizeCall \/ SanitizeAgain

SpecSanitize == InitSanitize /\ [][NextSanitize]_vars

(***************************************************************************)
(* Vocabulary of the properties.                                           *)
(***************************************************************************)
AliasPrefixes == {"MM_LINK", "MM_ATMENTION", "MM_HASHTAG", "MM_SEARCHTERM", "MM_SELFMENTION"}

\* the entry of a Map with a given key
EntryOf(m, alias) == m[CHOOSE k \in 1..Len(m) : m[k].alias = alias]
PositionOf(m, alias) == CHOOSE k \in 1..Len(m) : m[k].alias = alias

\* the placeholder-shaped substrings of s: a category prefix and all the
\* digits that follow it, at least one
PlaceholdersIn(s) ==
    {Slice(s, i, i + Len(p) + RunLen(s, i + Len(p), Digit) - 1) :
        <<i, p>> \in {<<j, q>> \in (1..Len(s)) \X AliasPrefixes :
                        /\ Slice(s, j, j + Len(q) - 1) = q
                        /\ RunLen(s, j + Len(q), Digit) > 0}}

\* the opening tag of a wrapping token's value: the value up to the wrapped alias
OpeningOf(value, inner) == Slice(value, 1, IndexOf(value, inner, 1) - 1)

\* an occurrence of inner in s lies inside a span opened by opening and not
\* closed before it
Encloses(s, opening, inner) ==
    \E i \in 1..Len(s), j \in 1..Len(s) :
        /\ j + Len(opening) <= i
        /\ Slice(s, j, j + Len(opening) - 1) = opening
        /\ Slice(s, i, i + Len(inner) - 1) = inner
        /\ ~Contains(Slice(s, j, i - 1), "</span>")
        /\ Contains(Slice(s, i + Len(inner), Len(s)), "</span>")

\* the value of a token with the aliases of the tokens registered before it resolved
FinalValue(m, alias) ==
    replaceTokens(EntryOf(m, alias).value, SubSeq(m, 1, PositionOf(m, alias) - 1))

(***************************************************************************)
(* C1  Nesting correctness: when formatText returns, for every token B a   *)
(* first loop of highlightSearchTerm or highlightCurrentMentions created   *)
(* around the alias of an earlier token A, the output holds A's complete   *)
(* value inside B's span, and neither alias is left in the output.         *)
(***************************************************************************)
NestingCorrect ==
    pc = "done" =>
        \A w \in wraps :
            /\ ~Contains(output, w[1])
            /\ ~Contains(output, w[2])
            /\ Encloses(output, OpeningOf(EntryOf(tokens, w[1]).value, w[2]),
                        FinalValue(tokens, w[2]))

(***************************************************************************)
(* C2  Resolution completeness: once replaceTokens has run at the end of   *)
(* formatText, no alias registered in the token Map is a substring of the  *)
(* output.                                                                 *)
(***************************************************************************)
ResolutionComplete ==
    pc \in {"newlines", "done"} =>
        \A k \in 1..Len(tokens) : ~Contains(output, tokens[k].alias)

(***************************************************************************)
(* C3  Alias safety: no alias generated during the call is a substring of  *)
(* the original input text.                                                *)
(***************************************************************************)
AliasSafety ==
    \A k \in 1..Len(tokens) : ~Contains(text, tokens[k].alias)

(***************************************************************************)
(* C4  Invariant I1: the keys of the token Map are distinct and the k-th   *)
(* registered token carries index k in its alias, also while tokens wait   *)
(* in newTokens; every step only appends to the Map, and a first loop      *)
(* that stashes a token appends it to newTokens: no entry is deleted or    *)
(* overwritten.                                                            *)
(***************************************************************************)
InFirstLoop == pc \in {"hashtag_a", "search_a", "self_a"}

HasIndex(alias, index) == \E p \in AliasPrefixes : alias = p \o NumToStr(index)

I1State ==
    /\ \A j, k \in 1..Len(tokens) : j # k => tokens[j].alias # tokens[k].alias
    /\ \A k \in 1..Len(tokens) : HasIndex(tokens[k].alias, k - 1)
    /\ InFirstLoop =>
          /\ \A k \in 1..Len(newTokens) :
                /\ ~MapHas(tokens, newTokens[k].alias)
                /\ HasIndex(newTokens[k].alias, Len(tokens) + k - 1)
          /\ \A j, k \in 1..Len(newTokens) :
                j # k => newTokens[j].alias # newTokens[k].alias

I1Step ==
    /\ Len(tokens') >= Len(tokens)
    /\ \A k \in 1..Len(tokens) : tokens'[k] = tokens[k]
    /\ \A k \in (Len(tokens) + 1)..Len(tokens') :
          \A j \in 1..Len(tokens) : tokens'[k].alias # tokens[j].alias
    /\ (InFirstLoop /\ pc' = pc /\ output' # output) =>
          /\ Len(newTokens') = Len(newTokens) + 1
          /\ \A k \in 1..Len(newTokens) : newTokens'[k] = newTokens[k]
    /\ (InFirstLoop /\ pc' # pc) =>
          /\ Len(tokens') = Len(tokens) + Len(newTokens)
          /\ \A k \in 1..Len(newTokens) : tokens'[Len(tokens) + k] = newTokens[k]

I1Uniqueness == [](I1State) /\ [][I1Step]_vars

\* a first loop has stashed two tokens and the second loop has merged them
I1Witness ==
    /\ pc = "self_b"
    /\ Len(newTokens) = 2
    /\ Len(tokens) = 4
    /\ tokens[4].alias = "MM_SELFMENTION3"

(***************************************************************************)
(* C5  Invariant I2 as stated: at every point every alias that appears     *)
(* literally in the working text is a key of the token Map.  An alias is   *)
(* read as a placeholder that the user did not type.                       *)
(***************************************************************************)
AliasesInText == {a \in PlaceholdersIn(output) : ~Contains(text, a)}

HoldsKeyFor(m, a) == \E k \in 1..Len(m) : StartsWith(a, m[k].alias)

AtMostOnceAtResolve ==
    pc = "resolve" =>
        \A k \in 1..Len(tokens) : Occurrences(output, tokens[k].alias) <= 1

(***************************************************************************)
(* Vocabulary of the mention properties: the candidates of the mention     *)
(* regex in a text, by the position where (^|\s) matches.                  *)
(***************************************************************************)
MentionCandidates(s) == {i \in 1..Len(s) : AtMentionPrefix(s, i) >= 0}

CandidateAt(s, i) ==
    LET pre == AtMentionPrefix(s, i)
        n == AtMentionLen(s, i + pre)
    IN [prefix |-> Slice(s, i, i + pre - 1),
        mention |-> Slice(s, i + pre, i + pre + n - 1),
        username |-> Slice(s, i + pre + 1, i + pre + n - 1)]

KnownName(username) ==
    \E u \in SPECIAL_MENTIONS \cup users : u = ToLowerCase(username)

UnknownCandidates(s) ==
    {i \in MentionCandidates(s) : ~KnownName(CandidateAt(s, i).username)}

KnownCandidates(s) ==
    {i \in MentionCandidates(s) : KnownName(CandidateAt(s, i).username)}

MentionAnchorFor(username) == "data-mention='" \o ToLowerCase(username) \o "'"

(***************************************************************************)
(* C7 as stated: for a candidate @name of the input that is neither a      *)
(* special mention nor a user, the final output contains the literal       *)
(* @name and no mention anchor for it.                                     *)
(***************************************************************************)
UnknownMentionInOutput ==
    pc = "done" =>
        \A i \in UnknownCandidates(text) :
            /\ Contains(output, CandidateAt(text, i).mention)
            /\ ~Contains(output, MentionAnchorFor(CandidateAt(text, i).username))

(***************************************************************************)
(* C7 as the code has it: autolinkAtMentions registers exactly one token   *)
(* per candidate whose lower-cased username is special or a user, in the   *)
(* order of the candidates, and puts its alias after the boundary          *)
(* character; it registers nothing for the other candidates and returns    *)
(* their @name; no state holds a mention anchor for an unknown name.  The  *)
(* literal @name need not survive the later passes.                        *)
(***************************************************************************)
MentionStep ==
    (pc = "mentions" /\ pc' = "hashtag_a") =>
        LET known == KnownCandidates(output)
        IN /\ Len(tokens') = Len(tokens) + Cardinality(known)
           /\ \A k \in 1..Len(tokens) : tokens'[k] = tokens[k]
           /\ \A i \in known :
                 LET c == CandidateAt(output, i)
                     k == Len(tokens) + Cardinality({j \in known : j <= i})
                 IN /\ tokens'[k].alias = "MM_ATMENTION" \o NumToStr(k - 1)
                    /\ tokens'[k].originalText = c.mention
                    /\ Contains(tokens'[k].value, MentionAnchorFor(c.username))
                    /\ Contains(output', c.prefix \o tokens'[k].alias)
           /\ \A i \in UnknownCandidates(output) :
                 Contains(output', CandidateAt(output, i).prefix
                                      \o CandidateAt(output, i).mention)
           /\ known = {} => output' = output

NoAnchorForUnknown ==
    \A i \in UnknownCandidates(text) :
        /\ ~Contains(output, MentionAnchorFor(CandidateAt(text, i).username))
        /\ \A k \in 1..Len(tokens) :
              ~Contains(tokens[k].value, MentionAnchorFor(CandidateAt(text, i).username))

UnknownMentionLeft == [][MentionStep]_vars /\ [](NoAnchorForUnknown)

\* the pass has just run over an unknown candidate and left it in place
UnknownMentionWitness ==
    /\ pc = "hashtag_a"
    /\ idx = 1
    /\ text = "see @Bob"
    /\ users = {}
    /\ tokens = <<>>
    /\ output = "see @Bob"

(***************************************************************************)
(* C8  URL normalization: the anchor of every link token has the matched   *)
(* text as its label, and as its href the matched text when that has a     *)
(* scheme and http:// followed by the matched text when it has none.       *)
(***************************************************************************)
HasScheme(linkText) == \E scheme \in Schemes : StartsWith(linkText, scheme)

NormalizedHref(linkText) ==
    IF HasScheme(linkText) THEN linkText ELSE "http://" \o linkText

UrlNormalized ==
    \A k \in 1..Len(tokens) :
        StartsWith(tokens[k].alias, "MM_LINK") =>
            tokens[k].value =
                "<a class='theme' target='_blank' href='"
                    \o NormalizedHref(tokens[k].originalText)
                    \o "'>" \o tokens[k].originalText \o "</a>"

(***************************************************************************)
(* Vocabulary of the shielding properties: the markdown link tails of a    *)
(* text, a tail being ]( and everything up to the next ).                  *)
(***************************************************************************)
TailAt(s, i) == Slice(s, i, i + 1) = "](" /\ IndexOf(s, ")", i + 2) > 0

TailsOf(s) ==
    {Slice(s, i, IndexOf(s, ")", i + 2)) : i \in {j \in 1..Len(s) : TailAt(s, j)}}

MarkdownOn == OptionTrue(options, "markdown")

(***************************************************************************)
(* C9  Markdown-link shielding: with markdown enabled the text handed to   *)
(* the link detector holds no markdown link tail, every token the detector *)
(* registers is for a span of that text, so none is for a URL inside a     *)
(* tail, and for the input [text](http://example.com) the token Map is     *)
(* empty after autolinkUrls.                                               *)
(***************************************************************************)
ShieldedText ==
    /\ (pc = "link" /\ MarkdownOn) => \A i \in 1..Len(output) : ~TailAt(output, i)
    /\ (pc = "mentions" /\ MarkdownOn /\ text = "[text](http://example.com)") =>
          /\ tokens = <<>>
          /\ output = text

DetectorStep ==
    (pc = "link" /\ pc' = "unshield" /\ MarkdownOn) =>
        \A k \in (Len(tokens) + 1)..Len(tokens') :
            /\ Contains(output, tokens'[k].originalText)
            /\ \A tail \in TailsOf(text) : ~Contains(tokens'[k].originalText, tail)
            /\ ~Contains(tokens'[k].originalText, "](")

MarkdownShielding == [](ShieldedText) /\ [][DetectorStep]_vars

\* autolinkUrls has returned the markdown link untouched
MarkdownShieldingWitness ==
    /\ pc = "mentions"
    /\ MarkdownOn
    /\ text = "[text](http://example.com)"
    /\ markdownLinkTokens # <<>>
    /\ output = text

(***************************************************************************)
(* C10  Shield restoration: when autolinkUrls returns with markdown        *)
(* enabled, every tail of the input is back in the working text, no        *)
(* private placeholder is left in the text, none is a key of the token     *)
(* Map and none is inside the value or the originalText of a token.        *)
(***************************************************************************)
ShieldRestored ==
    (pc = "mentions" /\ MarkdownOn) =>
        /\ ~Contains(output, "MM_MARKDOWNLINK")
        /\ \A tail \in TailsOf(text) : Contains(output, tail)
        /\ \A k \in 1..Len(tokens) :
              /\ ~Contains(tokens[k].alias, "MM_MARKDOWNLINK")
              /\ ~Contains(tokens[k].value, "MM_MARKDOWNLINK")
              /\ ~Contains(tokens[k].originalText, "MM_MARKDOWNLINK")

(***************************************************************************)
(* C11  No failure on content: for every text, search term and list of     *)
(* mention keys, also with regular expression metacharacters, formatText   *)
(* never raises.                                                           *)
(***************************************************************************)
NeverRaises == pc # "raised"

(***************************************************************************)
(* C12  Until replaceTokens has run, the working text holds no HTML made   *)
(* by the passes: the markup of anchors and spans is in the text only      *)
(* where the user typed it, while every token value is such an element and *)
(* the text refers to it by an alias.                                      *)
(***************************************************************************)
GeneratedMarkup == {"<a class=", "<span class=", "</a>", "</span>"}

BeforeResolution == pc \notin {"newlines", "done", "raised"}

HtmlFreeText ==
    BeforeResolution =>
        /\ \A m \in GeneratedMarkup : Contains(output, m) => Contains(text, m)
        /\ \A k \in 1..Len(tokens) :
              /\ \E m \in GeneratedMarkup : StartsWith(tokens[k].value, m)
              /\ ~Contains(output, tokens[k].value)

\* the renderer is handed a text in which a wrapped token is an alias
HtmlFreeWitness ==
    /\ pc = "markdown"
    /\ wraps # {}
    /\ \E w \in wraps : Contains(output, w[1])
    /\ \E k \in 1..Len(tokens) : Contains(tokens[k].value, "<span class=")

(***************************************************************************)
(* C13  Store lifecycle and order: the passes run in the order links,      *)
(* mentions, hashtags, search term (only with a search term), self         *)
(* mention (unless disabled), markdown, resolution, line breaks; tokens    *)
(* are registered by the passes only, and from resolution on the Map       *)
(* stays as it is.                                                         *)
(***************************************************************************)
PassSequence ==
    <<"start", "shield", "link", "unshield", "mentions", "hashtag_a", "hashtag_b",
      "search_a", "search_b", "self_a", "self_b", "markdown", "resolve", "newlines",
      "done", "raised">>

RankOf(p) == CHOOSE k \in 1..Len(PassSequence) : PassSequence[k] = p

WantsSearch == options.searchTerm # <<>> /\ options.searchTerm[1] # ""
WantsSelfMention == options.mentionHighlight = <<>> \/ options.mentionHighlight[1] = TRUE

\* the statement that follows the one at p when the pass at p is over
SuccessorOf(p) ==
    IF p = "hashtag_b" /\ ~WantsSearch /\ ~WantsSelfMention THEN {"markdown"}
    ELSE IF p = "hashtag_b" /\ ~WantsSearch THEN {"self_a"}
    ELSE IF p = "search_b" /\ ~WantsSelfMention THEN {"markdown", "raised"}
    ELSE IF p \in {"search_b", "self_b"} THEN {PassSequence[RankOf(p) + 1], "raised"}
    ELSE {PassSequence[RankOf(p) + 1]}

PassOrderStep ==
    /\ pc' # pc => pc' \in SuccessorOf(pc)
    /\ tokens' # tokens =>
          pc \in {"link", "mentions", "hashtag_a", "hashtag_b", "search_a", "search_b",
                  "self_a", "self_b"}
    /\ pc \in {"resolve", "newlines", "done"} => tokens' = tokens

PassOrderState ==
    /\ pc \in {"search_a", "search_b"} => WantsSearch
    /\ pc \in {"self_a", "self_b"} => WantsSelfMention
    /\ pc \in {"start", "shield", "link"} => tokens = <<>>

PassOrder == [](PassOrderState) /\ [][PassOrderStep]_vars

\* a call with a search term has run every pass and resolved its tokens
PassOrderWitness ==
    /\ pc = "done"
    /\ WantsSearch
    /\ WantsSelfMention
    /\ Len(tokens) >= 2
    /\ wraps # {}

(***************************************************************************)
(* C14  Purity: formatText leaves the caller's options object as it was:   *)
(* no step of a call adds or changes a property of it.                     *)
(***************************************************************************)
OptionsUntouched == [][options' = options]_vars

(***************************************************************************)
(* C17  Single-line collapse: with the option singleline the returned      *)
(* string holds no newline; the last step of formatText, after the tokens  *)
(* are resolved, puts one space in the place of every newline and changes  *)
(* nothing else, and without the option it changes nothing.                *)
(***************************************************************************)
SingleLineOn == options.singleline # <<>> /\ options.singleline[1] = TRUE

SingleLineState == (pc = "done" /\ SingleLineOn) => ~Contains(output, "\n")

SingleLineStep ==
    (pc = "newlines" /\ pc' = "done") =>
        IF SingleLineOn
        THEN /\ Len(output') = Len(output)
             /\ \A i \in 1..Len(output) :
                   Char(output', i) = IF Char(output, i) = "\n" THEN " " ELSE Char(output, i)
        ELSE output' = output

EntityOf(c) ==
    IF c = "&" THEN "&amp;"
    ELSE IF c = "<" THEN "&lt;"
    ELSE IF c = ">" THEN "&gt;"
    ELSE IF c = "'" THEN "&apos;"
    ELSE IF c = "\"" THEN "&quot;"
    ELSE c

RECURSIVE EscapeEach(_)
EscapeEach(s) ==
    IF Len(s) = 0 THEN ""
    ELSE EscapeEach(Slice(s, 1, Len(s) - 1)) \o EntityOf(Char(s, Len(s)))

EscapedChars == {"<", ">", "'", "\""}

SanitizeIsCharWise ==
    pc = "sanitized" =>
        /\ output = EscapeEach(text)
        /\ \A c \in EscapedChars : ~Contains(output, c)

\* an ampersand and two other escaped characters have been sanitized
SanitizeWitness ==
    /\ pc = "sanitized"
    /\ text = "&<'"
    /\ output = "&amp;&lt;&apos;"

(***************************************************************************)
(* C16  Idempotent escaping: for a text x without any of & < > ' ",        *)
(* sanitizeHtml(sanitizeHtml(x)) equals sanitizeHtml(x).                   *)
(***************************************************************************)
PlainText(s) == \A c \in EscapedChars \cup {"&"} : ~Contains(s, c)

SanitizeIdempotent ==
    (pc = "sanitized_twice" /\ PlainText(text)) => output = sanitizeHtml(text)

\* a plain text has been sanitized twice
SanitizeTwiceWitness ==
    /\ pc = "sanitized_twice"
    /\ text = "a/;"
    /\ output = "a/;"

(***************************************************************************)
(* Vocabulary of the highlighting properties: the whole-word occurrences   *)
(* of a word in a text, letter case ignored, by the position where (^|\W)  *)
(* matches, and the opening tags of the two highlights.                    *)
(***************************************************************************)
WordOccurrences(s, word) ==
    {i \in 1..Len(s) :
        WordPrefix(s, i, SourceLen(s, i, word), SourceLen(s, i + 1, word)) >= 0}

SearchSpan == "<span class='search-highlight'>"
MentionSpan == "<span class='mention-highlight'>"

(***************************************************************************)
(* C18  Double highlighting order: when the search term is one of the      *)
(* mention keys and occurs in the text, every occurrence is returned as a  *)
(* search-highlight span directly inside a mention-highlight span, never   *)
(* the other way round and never with one of the two only.                 *)
(***************************************************************************)
DoubleHighlight ==
    (/\ pc = "done"
     /\ WantsSearch
     /\ WantsSelfMention
     /\ \E k \in 1..Len(mentionKeys) : mentionKeys[k] = options.searchTerm[1]) =>
        LET n == Cardinality(WordOccurrences(text, options.searchTerm[1]))
        IN /\ Occurrences(output, MentionSpan \o SearchSpan) = n
           /\ Occurrences(output, SearchSpan) = n
           /\ Occurrences(output, MentionSpan) = n
           /\ ~Contains(output, SearchSpan \o MentionSpan)

(***************************************************************************)
(* C19  Re-wrap touches only the exact alias: the replacement a first loop *)
(* makes in the working text is of a complete alias, never of the leading  *)
(* part of a longer one, and between the passes every alias in the text is *)
(* a key of the token Map.                                                 *)
(***************************************************************************)
ExactAliasStep ==
    (InFirstLoop /\ pc' = pc /\ output' # output) =>
        LET alias == tokens[idx].alias
            at == IndexOf(output, alias, 1)
        IN Char(output, at + Len(alias)) \notin Digit

AliasesAreKeys ==
    pc \in {"hashtag_b", "search_b", "self_b", "markdown"} =>
        \A a \in PlaceholdersIn(output) : MapHas(tokens, a)

RewrapExactAlias == [](AliasesAreKeys) /\ [][ExactAliasStep]_vars

(***************************************************************************)
(* C20  Self-mention coverage: with mentionHighlight enabled, the output   *)
(* holds a mention-highlight span for every whole-word occurrence of a     *)
(* mention key in the input, letter case ignored: at least as many spans   *)
(* as any key has occurrences.                                             *)
(***************************************************************************)
SelfMentionCoverage ==
    (pc = "done" /\ WantsSelfMention) =>
        \A k \in 1..Len(mentionKeys) :
            Occurrences(output, MentionSpan)
                >= Cardinality(WordOccurrences(text, mentionKeys[k]))

====
